---- MODULE Spec2Model ----
(***************************************************************************)
(* A model of imprint_of_light: 2D light transport over a scene of         *)
(* boolean-combined primitives (src/src/shapes.rs, src/src/render.rs,      *)
(* src/src/calculate.rs, src/src/config.rs).                               *)
(*                                                                         *)
(* Numbers.  The program computes in f64.  The model computes in signed    *)
(* fixed point: the integer v stands for the real v / ONE, every product   *)
(* and quotient is rounded toward zero (sign-symmetric, as IEEE rounding   *)
(* is), and a square root is rounded down.  Angles are whole degrees, so   *)
(* the program's 2*PI is the model's WHOLE_ANGLE.  EPSILON, the program's  *)
(* 1e-6, is below the resolution 1/ONE and is modelled by the smallest     *)
(* positive number.                                                        *)
(***************************************************************************)
EXTENDS Integers, Sequences, FiniteSets, TLC

VARIABLES
    pc,             \* which operation has run ("input" before any); per run in render
    shape,          \* the Shape under test, or what a Polygon constructor returned
    ray_p,          \* ray origin (also the point handed to is_inside, and the pixel's point)
    ray_d,          \* ray direction
    hits,           \* result of Shape::intersect
    inside,         \* result of Shape::is_inside
    scene,          \* Scene.entities
    max_depth,      \* the depth handed to trace
    nearest,        \* result of Scene::intersect
    traced,         \* result of trace, with the record of the calls it made
    ctor,           \* the Polygon constructor call made, with its arguments
    size,           \* render's (width, height)
    stratification, \* samples per pixel
    cursor,         \* render's loop position: the index of the pixel being rendered
    jitter,         \* per run, the uniform variates drawn for the pixel's samples
    pending,        \* per run, the samples the worker pool has not traced yet
    acc,            \* per run, the sum of the sample colours so far
    img             \* per run, the image buffer

vars == <<pc, shape, ray_p, ray_d, hits, inside, scene, max_depth, nearest, traced,
          ctor, size, stratification, cursor, jitter, pending, acc, img>>

-----------------------------------------------------------------------------
(* f64 arithmetic *)

\* The fixed-point unit: the f64 value 1.0.
ONE == 1000

\* EPSILON (1e-6), as the smallest positive representable number.
EPSILON == 1

\* WHOLE_ANGLE (360.0): a full turn in degrees; also stands for 2*PI radians.
WHOLE_ANGLE == 360

Abs(x) == IF x < 0 THEN -x ELSE x

\* Division rounded toward zero.  (A zero divisor, where f64 gives an
\* infinity or NaN, is outside the inputs the model draws.)
Quot(a, b) ==
    IF b = 0 THEN 0
    ELSE IF (a < 0) = (b < 0) THEN Abs(a) \div Abs(b)
    ELSE -(Abs(a) \div Abs(b))

\* f64 * f64
FMul(a, b) == Quot(a * b, ONE)

\* f64 / f64
FDiv(a, b) == Quot(a * ONE, b)

RECURSIVE IsqrtIter(_, _)
IsqrtIter(n, g) ==
    LET h == (g + n \div g) \div 2
    IN  IF h >= g THEN g ELSE IsqrtIter(n, h)

\* f64::sqrt of a non-negative number, rounded down.
FSqrt(x) == IF x * ONE < 2 THEN x * ONE ELSE IsqrtIter(x * ONE, x * ONE)

\* f64::exp, for the non-positive arguments beer_lambert passes (and, by
\* the series, for positive ones): exp(-y) = 1 / (1 + y + y^2/2 + y^3/6).
FExp(x) ==
    LET y == Abs(x)
        s == ONE + y + FMul(y, y) \div 2 + FMul(FMul(y, y), y) \div 6
    IN  IF x <= 0 THEN FDiv(ONE, s) ELSE s

RECURSIVE NormDeg(_)
\* The `while elevation < 0 / while elevation >= WHOLE_ANGLE` loops, which
\* f64::sin and f64::cos do implicitly by periodicity.
NormDeg(e) ==
    IF e < 0 THEN NormDeg(e + WHOLE_ANGLE)
    ELSE IF e >= WHOLE_ANGLE THEN NormDeg(e - WHOLE_ANGLE)
    ELSE e

\* sin on [0, 180] degrees (Bhaskara's rational approximation; exact at
\* 0, 30, 90, 150, 180).
SinHalf(x) == Quot(ONE * 4 * x * (180 - x), 40500 - x * (180 - x))

\* f64::sin and f64::cos, of an angle in degrees.
FSin(deg) ==
    LET x == NormDeg(deg)
    IN  IF x <= 180 THEN SinHalf(x) ELSE -SinHalf(x - 180)

FCos(deg) == FSin(deg + 90)

\* calculate::distance
distance(p1, p2) ==
    LET dx == p1[1] - p2[1]
        dy == p1[2] - p2[2]
    IN  FSqrt(FMul(dx, dx) + FMul(dy, dy))

RECURSIVE Concat(_, _, _)
\* Vec::push of every item of seqs[i..] onto acc.
Concat(seqs, i, out) ==
    IF i > Len(seqs) THEN out ELSE Concat(seqs, i + 1, out \o seqs[i])

-----------------------------------------------------------------------------
(* shapes.rs: the Shape variants.  A shape is a record tagged by `kind`;   *)
(* an Intersection is [point |-> <<x, y>>, normal |-> <<nx, ny>>].         *)

Intersection(x, y, nx, ny) == [point |-> <<x, y>>, normal |-> <<nx, ny>>]

\* cos(0.09): `acos(x).abs() < 0.09` holds exactly when x is a cosine
\* (x <= 1; acos of more is NaN and compares false) above this value.
COS_THRESHOLD == 995

DirectionalLight_intersect(self, p, d) ==
    LET c == FMul(d[1], self.nx) + FMul(d[2], self.ny)
        a == FSqrt(FMul(d[1], d[1]) + FMul(d[2], d[2]))
        b == FSqrt(FMul(self.nx, self.nx) + FMul(self.ny, self.ny))
        x == FDiv(c, FMul(a, b))
    IN  IF c < EPSILON THEN << >>
        ELSE IF x <= ONE /\ x > COS_THRESHOLD
             THEN << Intersection(p[1] + FDiv(FMul(self.d, d[1]), a),
                                  p[2] + FDiv(FMul(self.d, d[2]), a),
                                  self.nx, self.ny) >>
             ELSE << >>

DirectionalLight_is_inside(self, p) == FALSE

\* CircleRoot as `if t >= 0.0`: the root at the ray's own origin is kept.
CircleRootAtOrigin(self, p, d, t) ==
    IF t >= 0
    THEN << Intersection(p[1] + FMul(d[1], t), p[2] + FMul(d[2], t),
                         FDiv(p[1] + FMul(d[1], t) - self.cx, self.r),
                         FDiv(p[2] + FMul(d[2], t) - self.cy, self.r)) >>
    ELSE << >>

\* One root t of the ray-circle quadratic, as the hit it yields (if any).
CircleRoot(self, p, d, t) ==
    LET x == p[1] + FMul(d[1], t)
        y == p[2] + FMul(d[2], t)
        nx == x - self.cx
        ny == y - self.cy
        len == FSqrt(FMul(nx, nx) + FMul(ny, ny))
    IN  IF t > EPSILON
        THEN << Intersection(x, y, FDiv(nx, len), FDiv(ny, len)) >>
        ELSE << >>

Circle_intersect(self, p, d) ==
    LET a == FMul(d[1], d[1]) + FMul(d[2], d[2])
        ocx == p[1] - self.cx
        ocy == p[2] - self.cy
        b == 2 * (FMul(ocx, d[1]) + FMul(ocy, d[2]))
        c == FMul(ocx, ocx) + FMul(ocy, ocy) - FMul(self.r, self.r)
        delta == FMul(b, b) - FMul(4 * a, c)
    IN  IF delta < 0 THEN << >>
        ELSE LET t1 == FDiv(-b - FSqrt(delta), 2 * a)
                 t2 == FDiv(-b + FSqrt(delta), 2 * a)
             IN  CircleRoot(self, p, d, t1) \o CircleRoot(self, p, d, t2)

Circle_is_inside(self, p) ==
    LET x == p[1] - self.cx
        y == p[2] - self.cy
    IN  FMul(x, x) + FMul(y, y) < FMul(self.r, self.r)

Plane_intersect(self, p, d) ==
    LET a == FMul(d[1], self.nx) + FMul(d[2], self.ny)
        b == FMul(self.px - p[1], self.nx) + FMul(self.py - p[2], self.ny)
        t == FDiv(b, a)
    IN  IF Abs(a) < EPSILON THEN << >>
        ELSE IF t > EPSILON
             THEN << Intersection(p[1] + FMul(d[1], t), p[2] + FMul(d[2], t),
                                  self.nx, self.ny) >>
             ELSE << >>

Plane_is_inside(self, p) ==
    FMul(p[1] - self.px, self.nx) + FMul(p[2] - self.py, self.ny) < 0

\* The vertex after vertex i (1-based), wrapping round.
NextIndex(points, i) == IF i + 1 > Len(points) THEN 1 ELSE i + 1

\* The body of Polygon::intersect's loop, for edge i.
PolygonEdge(points, i, p, d) ==
    LET a == points[i]
        b == points[NextIndex(points, i)]
        ax == a[1] - p[1]
        ay == a[2] - p[2]
        bx == b[1] - p[1]
        by == b[2] - p[2]
        product1 == FMul(ax, d[2]) - FMul(d[1], ay)
        product2 == FMul(bx, d[2]) - FMul(d[1], by)
        nx0 == a[2] - b[2]
        ny0 == b[1] - a[1]
        len == FSqrt(FMul(nx0, nx0) + FMul(ny0, ny0))
        nx == FDiv(nx0, len)
        ny == FDiv(ny0, len)
        c1 == FMul(d[1], nx) + FMul(d[2], ny)
        c2 == FMul(a[1] - p[1], nx) + FMul(a[2] - p[2], ny)
        t == FDiv(c2, c1)
    IN  IF product1 * product2 < 0 /\ Abs(c1) > EPSILON /\ t > EPSILON
        THEN << Intersection(p[1] + FMul(d[1], t), p[2] + FMul(d[2], t), nx, ny) >>
        ELSE << >>

Polygon_intersect(self, p, d) ==
    Concat([i \in 1..Len(self.points) |-> PolygonEdge(self.points, i, p, d)],
           1, << >>)

\* The body of Polygon::is_inside's loop: what edge i adds to cross_count.
PolygonCross(points, i, p) ==
    LET x0 == points[i][1]
        y0 == points[i][2]
        x1 == points[NextIndex(points, i)][1]
        y1 == points[NextIndex(points, i)][2]
        slope == FDiv(y1 - y0, x1 - x0)
        cond1 == x0 <= p[1] /\ p[1] < x1
        cond2 == x1 <= p[1] /\ p[1] < x0
        above == p[2] < FMul(slope, p[1] - x0) + y0
    IN  IF Abs(x1 - x0) < EPSILON
        THEN (IF (p[1] - x0) * (p[1] - x1) > 0 THEN 0 ELSE 1)
        ELSE (IF (cond1 \/ cond2) /\ above THEN 1 ELSE 0)

RECURSIVE PolygonCrossCount(_, _, _)
PolygonCrossCount(points, i, p) ==
    IF i > Len(points) THEN 0
    ELSE PolygonCross(points, i, p) + PolygonCrossCount(points, i + 1, p)

Polygon_is_inside(self, p) == PolygonCrossCount(self.points, 1, p) % 2 # 0

-----------------------------------------------------------------------------
(* shapes.rs: the Polygon constructors.  A constructor that panics returns *)
(* Panic(message) in place of a Polygon.                                   *)

Panic(msg) == [kind |-> "panic", msg |-> msg]

Polygon_new(p) ==
    IF Len(p) > 1 THEN [kind |-> "Polygon", points |-> p]
    ELSE Panic("Too few points!")

\* One corner (x, y) of the rectangle, rotated by theta and moved to (cx, cy).
RectangleCorner(cx, cy, theta, x, y) ==
    << FMul(x, FCos(theta)) - FMul(y, FSin(theta)) + cx,
       FMul(x, FSin(theta)) + FMul(y, FCos(theta)) + cy >>

Polygon_rectangle(cx, cy, e, sx, sy) ==
    LET theta == -NormDeg(e)
    IN  Polygon_new(<< RectangleCorner(cx, cy, theta, sx, -sy),
                       RectangleCorner(cx, cy, theta, -sx, -sy),
                       RectangleCorner(cx, cy, theta, -sx, sy),
                       RectangleCorner(cx, cy, theta, sx, sy) >>)

\* n: u32 is kept as bit 31 (hi) and the low 31 bits (lo): n = hi * 2^31 + lo.
U32(hi, lo) == [hi |-> hi, lo |-> lo]

\* 2 * n in u32, wrapping: bit 31 is shifted out and bit 30 becomes bit 31.
U32Double(n) == U32(IF n.lo >= 2 ^ 30 THEN 1 ELSE 0, 2 * (n.lo % (2 ^ 30)))

\* a / n as f64 in whole degrees, for 0 <= a < 2^31.
U32Quot(a, n) == IF n.hi = 1 THEN 0 ELSE Quot(a, n.lo)

\* The range (0..n) holds n.lo indices when bit 31 of n is clear; a range of
\* 2^31 or more indices is outside the inputs drawn below.
Polygon_regular(cx, cy, r, n, e) ==
    Polygon_new([k \in 1..n.lo |->
        LET theta == U32Quot((k - 1) * WHOLE_ANGLE, n) + NormDeg(e)
        IN  << cx + FMul(r, FCos(theta)), cy - FMul(r, FSin(theta)) >>])

\* One vertex of the star: the odd ones lie on the inner radius.
StarPoint(cx, cy, r, n, e, scaling_ratio, i) ==
    LET theta == U32Quot(i * (WHOLE_ANGLE \div 2), n) + NormDeg(e)
        l == IF i % 2 = 1 THEN FMul(r, scaling_ratio) ELSE r
    IN  << cx + FMul(l, FCos(theta)), cy - FMul(l, FSin(theta)) >>

\* overflow_checks is the build profile: with it `2 * n` panics when the
\* product does not fit u32, without it the product wraps.
Polygon_star(cx, cy, r, n, e, overflow_checks) ==
    IF ~(n.hi = 1 \/ n.lo >= 5) THEN Panic("assertion failed: n >= 5")
    ELSE IF overflow_checks /\ n.hi = 1
    THEN Panic("attempt to multiply with overflow")
    ELSE
    LET cos == FCos(U32Quot(WHOLE_ANGLE \div 2, n))
        scaling_ratio == FDiv(FMul(cos, cos) * 2 - ONE, cos)
    IN  Polygon_new([k \in 1..U32Double(n).lo |->
            StarPoint(cx, cy, r, n, e, scaling_ratio, k - 1)])

-----------------------------------------------------------------------------
(* shapes.rs: the CSG combinators, and dynamic dispatch on the variant.    *)

RECURSIVE intersect(_, _, _), is_inside(_, _)

RECURSIVE UnionCheckLater(_, _, _, _)
\* UnionCheck as `for j in i + 1..length`: the earlier siblings are not asked.
UnionCheckLater(c, i, j, point) ==
    IF j > Len(c) THEN TRUE
    ELSE IF j <= i THEN UnionCheckLater(c, i, j + 1, point)
    ELSE IF is_inside(c[j], point) THEN FALSE
    ELSE UnionCheckLater(c, i, j + 1, point)

RECURSIVE UnionCheck(_, _, _, _)
\* UnionShape::intersect's inner loop `for j in 0..length`, from j on: the
\* final value of `check` for a hit at `point` of child i.
UnionCheck(c, i, j, point) ==
    IF j > Len(c) THEN TRUE
    ELSE IF i = j THEN UnionCheck(c, i, j + 1, point)
    ELSE IF is_inside(c[j], point) THEN FALSE
    ELSE UnionCheck(c, i, j + 1, point)

RECURSIVE UnionItems(_, _, _, _)
\* `for item in self.c[i].intersect(p, d)`, from item k on: the items pushed.
UnionItems(c, i, items, k) ==
    IF k > Len(items) THEN << >>
    ELSE (IF UnionCheck(c, i, 1, items[k].point) THEN << items[k] >> ELSE << >>)
         \o UnionItems(c, i, items, k + 1)

UnionShape_intersect(self, p, d) ==
    LET length == Len(self.c)
    IN  IF length = 0 THEN << >>
        ELSE IF length = 1 THEN intersect(self.c[1], p, d)
        ELSE Concat([i \in 1..length |->
                        UnionItems(self.c, i, intersect(self.c[i], p, d), 1)],
                    1, << >>)

RECURSIVE UnionInsideLast(_, _, _, _)
\* UnionInside as `result = item.is_inside(p)`: the last child decides.
UnionInsideLast(c, i, p, result) ==
    IF i > Len(c) THEN result
    ELSE UnionInsideLast(c, i + 1, p, is_inside(c[i], p))

RECURSIVE UnionInside(_, _, _, _)
\* `self.c.iter().for_each(...)` from child i on, with `result` so far.
UnionInside(c, i, p, result) ==
    IF i > Len(c) THEN result
    ELSE UnionInside(c, i + 1, p, IF is_inside(c[i], p) THEN TRUE ELSE result)

UnionShape_is_inside(self, p) == UnionInside(self.c, 1, p, FALSE)

RECURSIVE IntersectCheckNoSkip(_, _, _, _)
\* IntersectCheck without `if i == j { continue; }`.
IntersectCheckNoSkip(c, i, j, point) ==
    IF j > Len(c) THEN TRUE
    ELSE IF ~is_inside(c[j], point) THEN FALSE
    ELSE IntersectCheckNoSkip(c, i, j + 1, point)

RECURSIVE IntersectCheck(_, _, _, _)
\* IntersectShape::intersect's inner loop, from j on.
IntersectCheck(c, i, j, point) ==
    IF j > Len(c) THEN TRUE
    ELSE IF i = j THEN IntersectCheck(c, i, j + 1, point)
    ELSE IF ~is_inside(c[j], point) THEN FALSE
    ELSE IntersectCheck(c, i, j + 1, point)

RECURSIVE IntersectItems(_, _, _, _)
IntersectItems(c, i, items, k) ==
    IF k > Len(items) THEN << >>
    ELSE (IF IntersectCheck(c, i, 1, items[k].point) THEN << items[k] >> ELSE << >>)
         \o IntersectItems(c, i, items, k + 1)

IntersectShape_intersect(self, p, d) ==
    LET length == Len(self.c)
    IN  IF length = 0 THEN << >>
        ELSE IF length = 1 THEN intersect(self.c[1], p, d)
        ELSE Concat([i \in 1..length |->
                        IntersectItems(self.c, i, intersect(self.c[i], p, d), 1)],
                    1, << >>)

RECURSIVE IntersectInside(_, _, _, _)
IntersectInside(c, i, p, result) ==
    IF i > Len(c) THEN result
    ELSE IntersectInside(c, i + 1, p, IF ~is_inside(c[i], p) THEN FALSE ELSE result)

IntersectShape_is_inside(self, p) == IntersectInside(self.c, 1, p, TRUE)

\* Opposite with only normal.0 negated.
OppositeX(item) ==
    [point |-> item.point, normal |-> << -item.normal[1], item.normal[2] >>]

\* The loop body of ComplementShape::intersect.
Opposite(item) ==
    [point |-> item.point, normal |-> << -item.normal[1], -item.normal[2] >>]

ComplementShape_intersect(self, p, d) ==
    LET items == intersect(self.a, p, d)
    IN  [k \in 1..Len(items) |-> Opposite(items[k])]

ComplementShape_is_inside(self, p) == ~is_inside(self.a, p)

\* Shape::intersect on a Box<dyn Shape>.
intersect(s, p, d) ==
    CASE s.kind = "DirectionalLight" -> DirectionalLight_intersect(s, p, d)
      [] s.kind = "Circle" -> Circle_intersect(s, p, d)
      [] s.kind = "Plane" -> Plane_intersect(s, p, d)
      [] s.kind = "Polygon" -> Polygon_intersect(s, p, d)
      [] s.kind = "UnionShape" -> UnionShape_intersect(s, p, d)
      [] s.kind = "IntersectShape" -> IntersectShape_intersect(s, p, d)
      [] s.kind = "ComplementShape" -> ComplementShape_intersect(s, p, d)

\* Shape::is_inside on a Box<dyn Shape>.
is_inside(s, p) ==
    CASE s.kind = "DirectionalLight" -> DirectionalLight_is_inside(s, p)
      [] s.kind = "Circle" -> Circle_is_inside(s, p)
      [] s.kind = "Plane" -> Plane_is_inside(s, p)
      [] s.kind = "Polygon" -> Polygon_is_inside(s, p)
      [] s.kind = "UnionShape" -> UnionShape_is_inside(s, p)
      [] s.kind = "IntersectShape" -> IntersectShape_is_inside(s, p)
      [] s.kind = "ComplementShape" -> ComplementShape_is_inside(s, p)

-----------------------------------------------------------------------------
(* element::Color (the file is not among the sources: its arithmetic is    *)
(* taken from how render.rs uses it and from the specification's section 3 *)
(* and 4.4: three channels, added and multiplied channel by channel).      *)

Color(r, g, b) == [r |-> r, g |-> g, b |-> b]

\* Color::black()
Color_black == Color(0, 0, 0)

\* Color::grey(n)
Color_grey(n) == Color(n, n, n)

\* Color + Color
Color_add(a, b) == Color(a.r + b.r, a.g + b.g, a.b + b.b)

\* Color * f64
Color_scale(a, f) == Color(FMul(a.r, f), FMul(a.g, f), FMul(a.b, f))

\* Color * Color
Color_mul(a, b) == Color(FMul(a.r, b.r), FMul(a.g, b.g), FMul(a.b, b.b))

-----------------------------------------------------------------------------
(* render.rs: Entity and Scene.  An Entity is a record [shape, emissive,   *)
(* reflectivity, eta, absorption]; Option::None is the record None.        *)

None == [none |-> TRUE]

EntityIntersection(e, intersection) ==
    [point |-> intersection.point,
     normal |-> intersection.normal,
     emissive |-> e.emissive,
     reflectivity |-> e.reflectivity,
     eta |-> e.eta,
     absorption |-> e.absorption]

Entity_intersect(self, p, d) ==
    LET items == intersect(self.shape, p, d)
    IN  [k \in 1..Len(items) |-> EntityIntersection(self, items[k])]

\* SceneKeep with `>=` for `>`: on a tie the later hit replaces the earlier.
SceneKeepLast(res, item, p) ==
    IF res = None THEN item
    ELSE IF distance(p, res.point) >= distance(p, item.point) THEN item
    ELSE res

\* The `match res` of Scene::intersect: the new value of res.
SceneKeep(res, item, p) ==
    IF res = None THEN item
    ELSE IF distance(p, res.point) > distance(p, item.point) THEN item
    ELSE res

RECURSIVE SceneItems(_, _, _, _)
\* `for item in e.intersect(p, d)`, from item k on.
SceneItems(items, k, res, p) ==
    IF k > Len(items) THEN res
    ELSE SceneItems(items, k + 1, SceneKeep(res, items[k], p), p)

RECURSIVE SceneEntities(_, _, _, _, _)
\* `for e in &self.entities`, from entity i on.
SceneEntities(entities, i, res, p, d) ==
    IF i > Len(entities) THEN res
    ELSE SceneEntities(entities, i + 1,
                       SceneItems(Entity_intersect(entities[i], p, d), 1, res, p),
                       p, d)

Scene_intersect(entities, p, d) == SceneEntities(entities, 1, None, p, d)

-----------------------------------------------------------------------------
(* render.rs: light transport.                                             *)

reflect(ix, iy, nx, ny) ==
    LET dot2 == (FMul(ix, nx) + FMul(iy, ny)) * 2
    IN  << ix - FMul(dot2, nx), iy - FMul(dot2, ny) >>

\* refract's k.
RefractK(ix, iy, nx, ny, eta) ==
    LET dot == FMul(ix, nx) + FMul(iy, ny)
    IN  ONE - FMul(FMul(eta, eta), ONE - FMul(dot, dot))

refract(ix, iy, nx, ny, eta) ==
    LET dot == FMul(ix, nx) + FMul(iy, ny)
        k == RefractK(ix, iy, nx, ny, eta)
        a == FMul(eta, dot) + FSqrt(k)
    IN  IF k < 0 THEN None
        ELSE << FMul(eta, ix) - FMul(a, nx), FMul(eta, iy) - FMul(a, ny) >>

schlick(cosi, cost, etai, etat) ==
    LET r00 == FDiv(etai - etat, etai + etat)
        r0 == FMul(r00, r00)
        a == IF etai < etat THEN ONE - cosi ELSE ONE - cost
        aa == FMul(a, a)
    IN  r0 + FMul(FMul(FMul(ONE - r0, aa), aa), a)

beer_lambert(a, d) ==
    Color(FExp(FMul(-a.r, d)), FExp(FMul(-a.g, d)), FExp(FMul(-a.b, d)))

\* `sign` of trace: +1.0 when normal . direction < 0, else -1.0.
TraceSign(r, dx, dy) ==
    IF FMul(r.normal[1], dx) + FMul(r.normal[2], dy) < 0 THEN ONE ELSE -ONE

\* TraceEta with the two cases exchanged.
TraceEtaSwapped(r, sign) == IF sign < 0 THEN FDiv(ONE, r.eta) ELSE r.eta

\* The relative index trace hands to refract.
TraceEta(r, sign) == IF sign < 0 THEN r.eta ELSE FDiv(ONE, r.eta)

\* TraceBranches as `depth >= 0`.
TraceBranchesAtZero(r, depth) == depth >= 0 /\ (r.reflectivity > 0 \/ r.eta > 0)

\* Whether trace enters its recursive block.
TraceBranches(r, depth) == depth > 0 /\ (r.reflectivity > 0 \/ r.eta > 0)

\* The final attenuation of trace.
TraceAttenuate(sum, r, sign, ox, oy) ==
    IF sign < 0
    THEN Color_mul(sum, beer_lambert(r.absorption, distance(<<ox, oy>>, r.point)))
    ELSE sum

\* TraceRefl without `None => refl = 1.0`.
TraceReflKeep(r, refracts, t, sign, cosi, cost) ==
    IF ~refracts \/ t = None THEN r.reflectivity
    ELSE IF sign < 0 THEN schlick(cosi, cost, r.eta, ONE)
    ELSE schlick(cosi, cost, ONE, r.eta)

\* `refl` after the `if r.eta > 0.0 { ... }` block: the entity's own
\* reflectivity when refract was not called, 1.0 when refract returned None
\* (t = None), and Schlick's reflectance otherwise.
TraceRefl(r, refracts, t, sign, cosi, cost) ==
    IF ~refracts THEN r.reflectivity
    ELSE IF t = None THEN ONE
    ELSE IF sign < 0 THEN schlick(cosi, cost, r.eta, ONE)
    ELSE schlick(cosi, cost, ONE, r.eta)

\* What an invocation of trace returns: its Color as .color, together with
\* what it did: its arguments (.origin, .dir, .depth), the hit (.r, or
\* None), .sign, the relative indices it handed to refract (.refracted, at
\* most one) and the recursive calls it made, in order (.calls: the branch,
\* the weight of the term, and the callee's own record).
TraceRecord(ox, oy, dx, dy, depth, r, sign, refracted, calls, color) ==
    [origin |-> <<ox, oy>>, dir |-> <<dx, dy>>, depth |-> depth,
     r |-> r, sign |-> sign, refracted |-> refracted,
     calls |-> calls, color |-> color]

TraceCall(branch, weight, result) ==
    [branch |-> branch, weight |-> weight, result |-> result]

RECURSIVE TraceSum(_, _, _)
\* `sum = sum + trace(...) * weight`, for the calls from k on.
TraceSum(sum, calls, k) ==
    IF k > Len(calls) THEN sum
    ELSE TraceSum(Color_add(sum, Color_scale(calls[k].result.color, calls[k].weight)),
                  calls, k + 1)

RECURSIVE trace(_, _, _, _, _, _)

\* trace called with depth - 2: a level of the recursion is skipped.
TraceNextDepthSkip(depth) == depth - 2

\* The depth handed to a recursive call of trace.
TraceNextDepth(depth) == depth - 1

\* Lines 133 and 138-141, then 143-146: the transmitted call (when refract
\* gave a direction t), the reflected call (when refl > 0), the attenuation.
TraceRecurse(entities, ox, oy, dx, dy, depth, r, sign, nx, ny, refracts, eta, t, refl, rd) ==
    LET calls ==
            (IF refracts /\ t # None
             THEN << TraceCall("transmitted", ONE - refl,
                               trace(entities, r.point[1], r.point[2],
                                     t[1], t[2], TraceNextDepth(depth))) >>
             ELSE << >>)
            \o
            (IF TraceBranches(r, depth) /\ refl > 0
             THEN << TraceCall("reflected", refl,
                               trace(entities, r.point[1], r.point[2],
                                     rd[1], rd[2], TraceNextDepth(depth))) >>
             ELSE << >>)
    IN  TraceRecord(ox, oy, dx, dy, depth, r, sign,
                    IF refracts THEN << eta >> ELSE << >>,
                    calls,
                    TraceAttenuate(TraceSum(r.emissive, calls, 1), r, sign, ox, oy))

\* Lines 124-136: refract, cosi, cost and the reflectance.
TraceRefract(entities, ox, oy, dx, dy, depth, r, sign, nx, ny, refracts, eta, t) ==
    TraceRecurse(entities, ox, oy, dx, dy, depth, r, sign, nx, ny, refracts, eta, t,
                 TraceRefl(r, refracts, t, sign,
                           -(FMul(dx, nx) + FMul(dy, ny)),
                           IF t = None THEN 0 ELSE -(FMul(t[1], nx) + FMul(t[2], ny))),
                 reflect(dx, dy, nx, ny))

\* Lines 117-123: the oriented normal and the relative index.
TraceOriented(entities, ox, oy, dx, dy, depth, r, sign, nx, ny) ==
    TraceRefract(entities, ox, oy, dx, dy, depth, r, sign, nx, ny,
                 TraceBranches(r, depth) /\ r.eta > 0,
                 TraceEta(r, sign),
                 refract(dx, dy, nx, ny, TraceEta(r, sign)))

\* Lines 110-116 and 148: the hit and its sign, or black.
TraceHit(entities, ox, oy, dx, dy, depth, r, sign) ==
    IF r = None
    THEN TraceRecord(ox, oy, dx, dy, depth, None, 0, << >>, << >>, Color_black)
    ELSE TraceOriented(entities, ox, oy, dx, dy, depth, r, sign,
                       FMul(r.normal[1], sign), FMul(r.normal[2], sign))

trace(entities, ox, oy, dx, dy, depth) ==
    TraceHit(entities, ox, oy, dx, dy, depth,
             Scene_intersect(entities, <<ox, oy>>, <<dx, dy>>),
             TraceSign(Scene_intersect(entities, <<ox, oy>>, <<dx, dy>>), dx, dy))

-----------------------------------------------------------------------------
(* The shapes, materials and rays the specifications draw their inputs     *)
(* from (1000 is 1.0).                                                     *)

Circle(cx, cy, r) == [kind |-> "Circle", cx |-> cx, cy |-> cy, r |-> r]
Plane(px, py, nx, ny) == [kind |-> "Plane", px |-> px, py |-> py, nx |-> nx, ny |-> ny]
DirectionalLight(d, nx, ny) == [kind |-> "DirectionalLight", d |-> d, nx |-> nx, ny |-> ny]
UnionShape(c) == [kind |-> "UnionShape", c |-> c]
IntersectShape(c) == [kind |-> "IntersectShape", c |-> c]
ComplementShape_new(a) == [kind |-> "ComplementShape", a |-> a]

\* Two overlapping unit circles, a half plane (y < 0), a beam along +x and a
\* triangle.
CircleA == Circle(0, 0, 1000)
CircleB == Circle(1000, 0, 1000)
Half == Plane(0, 0, 0, 1000)
Beam == DirectionalLight(2000, 1000, 0)
Triangle == Polygon_new(<< <<-500, -500>>, <<1500, -500>>, <<500, 1500>> >>)

\* The largest number of children of a Union or Intersect the model draws.
MaxChildren == 2

Seqs(S, n) == UNION { [1..k -> S] : k \in 0..n }

Leaves == {CircleA, CircleB, Half, Beam}

Level1 ==
    { UnionShape(c) : c \in Seqs(Leaves, MaxChildren) }
    \cup { IntersectShape(c) : c \in Seqs(Leaves, MaxChildren) }
    \cup { ComplementShape_new(a) : a \in Leaves \cup {Triangle} }

Level2 ==
    { ComplementShape_new(a) : a \in Level1 }
    \cup { UnionShape(<<a, Triangle>>) : a \in Level1 }
    \cup { IntersectShape(<<ComplementShape_new(CircleB), a>>) : a \in Level1 }

Level3 == { ComplementShape_new(a) : a \in Level2 }

\* A light whose configured distance is 0, alone and inside the combinators.
Glow == DirectionalLight(0, 1000, 0)

Glows == { Glow, UnionShape(<<Glow, CircleB>>), ComplementShape_new(Glow) }

\* An axis-aligned rectangle: its corners are (0, -1000), (0, 1000),
\* (1000, 1000) and (1000, -1000), two of its edges are vertical.
Box == Polygon_rectangle(500, 0, 0, 500, 1000)

Shapes ==
    Leaves \cup {Triangle, Box} \cup Level1 \cup Level2 \cup Level3 \cup Glows

\* (1000, 0) lies on CircleA and on Half, (500, 0) and (-2000, 0) on Half.
RayOrigins ==
    { <<-2000, 0>>, <<500, 0>>, <<1500, 100>>, <<0, -1500>>, <<0, 800>>,
      <<1000, 0>> }

\* Unit directions (3-4-5 triangles keep the diagonals exactly unit).
RayDirs == { <<1000, 0>>, <<-1000, 0>>, <<600, 800>>, <<0, -1000>>, <<800, -600>> }

-----------------------------------------------------------------------------
(* SpecShapes: a shape tree is queried.  Init draws the tree, a ray and    *)
(* (as the ray's origin) a point; the two actions are the two methods of   *)
(* the Shape trait.  pc is the set of methods that have run.               *)

ShapeVars == <<shape, ray_p, ray_d, hits, inside>>
TraceVars == <<scene, max_depth, nearest, traced>>
RenderVars == <<size, stratification, cursor, jitter, pending, acc, img>>

TraceIdle == scene = << >> /\ max_depth = 0 /\ nearest = None /\ traced = None
RenderIdle ==
    /\ size = <<0, 0>> /\ stratification = 0 /\ cursor = 0
    /\ jitter = << >> /\ pending = << >> /\ acc = << >> /\ img = << >>

ShapesInit ==
    /\ pc = {}
    /\ shape \in Shapes
    /\ ray_p \in RayOrigins
    /\ ray_d \in RayDirs
    /\ hits = << >>
    /\ inside = FALSE
    /\ ctor = None
    /\ TraceIdle
    /\ RenderIdle

\* shape.intersect(ray_p, ray_d)
ShapeIntersect ==
    /\ "intersect" \notin pc
    /\ hits' = intersect(shape, ray_p, ray_d)
    /\ pc' = pc \cup {"intersect"}
    /\ UNCHANGED <<shape, ray_p, ray_d, inside, ctor, TraceVars, RenderVars>>

\* shape.is_inside(ray_p)
ShapeIsInside ==
    /\ "is_inside" \notin pc
    /\ inside' = is_inside(shape, ray_p)
    /\ pc' = pc \cup {"is_inside"}
    /\ UNCHANGED <<shape, ray_p, ray_d, hits, ctor, TraceVars, RenderVars>>

ShapesNext == ShapeIntersect \/ ShapeIsInside

SpecShapes == ShapesInit /\ [][ShapesNext]_vars

\* The hits of child i that a Union of the children c keeps: those whose
\* point no other child contains.
UnionKept(c, i, p, d) ==
    SelectSeq(intersect(c[i], p, d),
              LAMBDA h : \A j \in (1..Len(c)) \ {i} : ~is_inside(c[j], h.point))

\* C4: UnionShape.intersect with two or more children returns, in child
\* order, exactly the hits of each child whose point is not inside any other
\* child; with exactly one child it returns that child's hits unfiltered.
C4_UnionIntersect ==
    ("intersect" \in pc /\ shape.kind = "UnionShape" /\ Len(shape.c) >= 1) =>
        IF Len(shape.c) = 1
        THEN hits = intersect(shape.c[1], ray_p, ray_d)
        ELSE hits = Concat([i \in 1..Len(shape.c) |->
                               UnionKept(shape.c, i, ray_p, ray_d)], 1, << >>)

\* A ray through the overlap of the two circles: of the four boundary
\* crossings only the two outer ones are returned.
C4_Witness ==
    /\ "intersect" \in pc
    /\ shape = UnionShape(<<CircleA, CircleB>>)
    /\ ray_p = <<-2000, 0>> /\ ray_d = <<1000, 0>>
    /\ Len(intersect(CircleA, ray_p, ray_d)) + Len(intersect(CircleB, ray_p, ray_d)) = 4
    /\ Len(hits) = 2
    /\ hits[1].point = <<-1000, 0>> /\ hits[2].point = <<2000, 0>>

\* The hits of child i that an Intersect of the children c keeps.
IntersectKept(c, i, p, d) ==
    SelectSeq(intersect(c[i], p, d),
              LAMBDA h : \A j \in (1..Len(c)) \ {i} : is_inside(c[j], h.point))

\* C5: IntersectShape.intersect with two or more children returns exactly
\* the hits of each child whose point is inside every other child; the hit
\* is not tested against its own child, and a hit that fails for one
\* sibling is not returned.
C5_IntersectIntersect ==
    ("intersect" \in pc /\ shape.kind = "IntersectShape" /\ Len(shape.c) >= 2) =>
        /\ hits = Concat([i \in 1..Len(shape.c) |->
                             IntersectKept(shape.c, i, ray_p, ray_d)], 1, << >>)
        /\ \A k \in 1..Len(hits) :
              \E i \in 1..Len(shape.c) :
                 /\ \E m \in 1..Len(intersect(shape.c[i], ray_p, ray_d)) :
                       intersect(shape.c[i], ray_p, ray_d)[m] = hits[k]
                 /\ \A j \in (1..Len(shape.c)) \ {i} : is_inside(shape.c[j], hits[k].point)

\* The lens of the two circles: each circle contributes the crossing that
\* lies inside the other, although that crossing, being on its own circle's
\* boundary, is not inside its own circle.
C5_Witness ==
    /\ "intersect" \in pc
    /\ shape = IntersectShape(<<CircleA, CircleB>>)
    /\ ray_p = <<-2000, 0>> /\ ray_d = <<1000, 0>>
    /\ Len(hits) = 2
    /\ hits[1].point = <<1000, 0>> /\ hits[2].point = <<0, 0>>
    /\ ~is_inside(CircleA, hits[1].point)
    /\ ~is_inside(CircleB, hits[2].point)

\* C6: ComplementShape.is_inside is the negation of the child's, and
\* ComplementShape.intersect returns the child's hits, as many, in the same
\* order and at the same points, each normal negated; so a Complement of a
\* Complement answers both as the child does.
C6_Complement ==
    shape.kind = "ComplementShape" =>
        LET child == intersect(shape.a, ray_p, ray_d)
        IN  /\ "is_inside" \in pc => (inside <=> ~is_inside(shape.a, ray_p))
            /\ "intersect" \in pc =>
                  /\ Len(hits) = Len(child)
                  /\ \A k \in 1..Len(hits) :
                        /\ hits[k].point = child[k].point
                        /\ hits[k].normal[1] + child[k].normal[1] = 0
                        /\ hits[k].normal[2] + child[k].normal[2] = 0
            /\ shape.a.kind = "ComplementShape" =>
                  /\ "is_inside" \in pc => inside = is_inside(shape.a.a, ray_p)
                  /\ "intersect" \in pc => hits = intersect(shape.a.a, ray_p, ray_d)

\* A Complement of a Complement that has answered both methods, with hits
\* whose normals are not zero.
C6_Witness ==
    /\ pc = {"intersect", "is_inside"}
    /\ shape.kind = "ComplementShape"
    /\ shape.a.kind = "ComplementShape"
    /\ inside
    /\ Len(hits) = 2
    /\ hits[1].normal # <<0, 0>>

RECURSIVE Denotes(_, _)
\* The boolean expression of a CSG tree at point p.
Denotes(s, p) ==
    CASE s.kind = "UnionShape" -> \E i \in 1..Len(s.c) : Denotes(s.c[i], p)
      [] s.kind = "IntersectShape" -> \A i \in 1..Len(s.c) : Denotes(s.c[i], p)
      [] s.kind = "ComplementShape" -> ~Denotes(s.a, p)
      [] s.kind = "DirectionalLight" -> FALSE
      [] s.kind = "Circle" -> Circle_is_inside(s, p)
      [] s.kind = "Plane" -> Plane_is_inside(s, p)
      [] s.kind = "Polygon" -> Polygon_is_inside(s, p)

\* C7: is_inside of a CSG tree of any nesting is the boolean expression with
\* OR for Union, AND for Intersect, NOT for Complement over the leaves'
\* is_inside (an empty Union is false, an empty Intersect true), and a
\* DirectionalLight leaf is false.
C7_IsInsideBoolean ==
    "is_inside" \in pc => (inside <=> Denotes(shape, ray_p))

RECURSIVE Nesting(_)
Nesting(s) ==
    CASE s.kind = "ComplementShape" -> 1 + Nesting(s.a)
      [] s.kind \in {"UnionShape", "IntersectShape"} ->
            IF s.c = << >> THEN 1
            ELSE 1 + Nesting(s.c[CHOOSE i \in 1..Len(s.c) :
                                   \A j \in 1..Len(s.c) : Nesting(s.c[i]) >= Nesting(s.c[j])])
      [] OTHER -> 0

\* A tree three combinators deep, with a Union, an Intersect and a
\* Complement on one path, that contains the point.
C7_Witness ==
    /\ "is_inside" \in pc
    /\ inside
    /\ Nesting(shape) = 3
    /\ shape.kind = "ComplementShape"
    /\ shape.a.kind = "IntersectShape"
    /\ Len(shape.a.c) = 2
    /\ shape.a.c[2].kind = "UnionShape"
    /\ Len(shape.a.c[2].c) = 2

-----------------------------------------------------------------------------
(* SpecTrace: a ray is cast into a scene.  Init draws the scene, the ray   *)
(* and the depth; the actions are Scene::intersect and trace.              *)

Entity(shape_, emissive, reflectivity, eta, absorption) ==
    [shape |-> shape_, emissive |-> emissive, reflectivity |-> reflectivity,
     eta |-> eta, absorption |-> absorption]

\* A glowing, absorbing glass disc; a matte disc on the very same circle; a
\* second dielectric overlapping the first; a lamp; a mirror line below; a
\* glowing, absorbing, reflective triangle; and a sheet made of two planes
\* on one line with opposite normals.
Glass == Entity(CircleA, Color(100, 200, 300), 200, 1500, Color(500, 0, 0))
Twin == Entity(CircleA, Color_grey(700), 0, 0, Color(0, 300, 0))
Water == Entity(CircleB, Color_grey(50), 0, 1330, Color_black)
Lamp == Entity(Circle(3000, 0, 500), Color_grey(2000), 0, 0, Color_black)
Mirror == Entity(Plane(0, -1500, 0, 1000), Color_black, 900, 0, Color_black)
Chrome == Entity(Triangle, Color(300, 0, 0), 500, 0, Color(0, 0, 400))
Sheet == Entity(UnionShape(<<Half, Plane(0, 0, 0, -1000)>>),
                Color(0, 400, 0), 0, 0, Color(200, 200, 200))

Scenes ==
    { << >>, <<Glass>>, <<Glass, Lamp>>, <<Glass, Twin>>, <<Twin, Glass>>,
      <<Mirror, Lamp>>, <<Chrome, Lamp, Mirror>>, <<Water, Glass>>,
      <<Sheet, Lamp>> }

\* The largest depth handed to trace.
MaxDepth == 2

ShapesIdle ==
    shape = None /\ hits = << >> /\ inside = FALSE /\ ctor = None

TraceInit ==
    /\ pc = {}
    /\ scene \in Scenes
    /\ ray_p \in RayOrigins
    /\ ray_d \in RayDirs
    /\ max_depth \in 0..MaxDepth
    /\ nearest = None
    /\ traced = None
    /\ ShapesIdle
    /\ RenderIdle

\* scene.intersect(ray_p, ray_d)
SceneIntersect ==
    /\ "intersect" \notin pc
    /\ nearest' = Scene_intersect(scene, ray_p, ray_d)
    /\ pc' = pc \cup {"intersect"}
    /\ UNCHANGED <<ShapeVars, ctor, scene, max_depth, traced, RenderVars>>

\* trace(&scene, ox, oy, dx, dy, depth)
Trace ==
    /\ "trace" \notin pc
    /\ traced' = trace(scene, ray_p[1], ray_p[2], ray_d[1], ray_d[2], max_depth)
    /\ pc' = pc \cup {"trace"}
    /\ UNCHANGED <<ShapeVars, ctor, scene, max_depth, nearest, RenderVars>>

TraceNext == SceneIntersect \/ Trace

SpecTrace == TraceInit /\ [][TraceNext]_vars

\* Every hit of every entity, as <<entity index, index in the entity's hits>>.
HitPairs(entities, p, d) ==
    UNION { { <<i, k>> : k \in 1..Len(intersect(entities[i].shape, p, d)) } :
            i \in 1..Len(entities) }

HitAt(entities, w, p, d) == intersect(entities[w[1]].shape, p, d)[w[2]]

HitDistance(entities, w, p, d) == distance(p, HitAt(entities, w, p, d).point)

\* Enumeration order: entities in scene order, then the hits of an entity.
HitBefore(a, b) == a[1] < b[1] \/ (a[1] = b[1] /\ a[2] < b[2])

\* Hit w of the scene with the material of its entity.
HitWithMaterial(entities, w, p, d) ==
    [point |-> HitAt(entities, w, p, d).point,
     normal |-> HitAt(entities, w, p, d).normal,
     emissive |-> entities[w[1]].emissive,
     reflectivity |-> entities[w[1]].reflectivity,
     eta |-> entities[w[1]].eta,
     absorption |-> entities[w[1]].absorption]

\* C1: Scene.intersect returns None iff no entity's shape yields a hit, and
\* otherwise the hit at the least distance from the origin, with the
\* material of its entity; of several hits at that least distance, the
\* first in enumeration order.
C1_SceneNearest ==
    "intersect" \in pc =>
        LET H == HitPairs(scene, ray_p, ray_d)
        IN  /\ (nearest = None) <=> (H = {})
            /\ H # {} =>
                  \E w \in H :
                     /\ \A o \in H : HitDistance(scene, w, ray_p, ray_d)
                                       <= HitDistance(scene, o, ray_p, ray_d)
                     /\ \A o \in H : HitDistance(scene, o, ray_p, ray_d)
                                       = HitDistance(scene, w, ray_p, ray_d)
                                     => ~HitBefore(o, w)
                     /\ nearest = HitWithMaterial(scene, w, ray_p, ray_d)

\* Two hits tie for the least distance, and taking the other one would
\* have shown (a different material, or a different normal).
C1_Witness ==
    /\ "intersect" \in pc
    /\ nearest # None
    /\ \E a, b \in HitPairs(scene, ray_p, ray_d) :
          /\ HitBefore(a, b)
          /\ HitDistance(scene, a, ray_p, ray_d) = HitDistance(scene, b, ray_p, ray_d)
          /\ HitDistance(scene, a, ray_p, ray_d) = distance(ray_p, nearest.point)
          /\ nearest = HitWithMaterial(scene, a, ray_p, ray_d)
          /\ nearest # HitWithMaterial(scene, b, ray_p, ray_d)

RECURSIVE Nodes(_)
\* Every invocation of trace in the call tree of the invocation t.
Nodes(t) == {t} \cup UNION { Nodes(t.calls[k].result) : k \in 1..Len(t.calls) }

\* The ray of invocation n enters the surface it hits: normal . direction < 0.
Entering(n) ==
    FMul(n.r.normal[1], n.dir[1]) + FMul(n.r.normal[2], n.dir[2]) < 0

\* Beer-Lambert transmittance of invocation n's hit, origin to hit point.
Transmittance(n, a) == FExp(FMul(-a, distance(n.origin, n.r.point)))

\* An invocation with depth 0 that hits a reflective or refractive entity.
DepthZeroOnShiny(n) ==
    n.depth = 0 /\ n.r # None /\ (n.r.reflectivity > 0 \/ n.r.eta > 0)

\* C2 as claimed: trace with depth 0 whose nearest hit is on an entity with
\* reflectivity > 0 or eta > 0 makes no recursive call and returns exactly
\* the entity's emissive colour, entering or exiting.
C2_Claimed ==
    "trace" \in pc =>
        \A n \in Nodes(traced) :
            DepthZeroOnShiny(n) => n.calls = << >> /\ n.color = n.r.emissive

\* C2, amended: such a trace makes no recursive call and returns the
\* entity's emissive colour when the ray enters the surface, and the
\* emissive colour times the Beer-Lambert transmittance
\* exp(-absorption * distance(origin, hit)), channel by channel, when it exits.
C2_DepthZero ==
    "trace" \in pc =>
        \A n \in Nodes(traced) :
            DepthZeroOnShiny(n) =>
                /\ n.calls = << >>
                /\ n.color =
                      IF Entering(n) THEN n.r.emissive
                      ELSE [r |-> FMul(n.r.emissive.r, Transmittance(n, n.r.absorption.r)),
                            g |-> FMul(n.r.emissive.g, Transmittance(n, n.r.absorption.g)),
                            b |-> FMul(n.r.emissive.b, Transmittance(n, n.r.absorption.b))]

\* A depth-0 trace leaving an absorbing, glowing, shiny entity: the colour
\* returned is dimmer than the emissive colour; and, in the same run, one
\* entering such an entity, which returns the emissive colour.
C2_Witness ==
    /\ "trace" \in pc
    /\ \E n \in Nodes(traced) :
          /\ DepthZeroOnShiny(n) /\ ~Entering(n)
          /\ n.color # n.r.emissive
    /\ \E n \in Nodes(traced) :
          /\ DepthZeroOnShiny(n) /\ Entering(n)
          /\ n.r.emissive # Color_black
          /\ n.color = n.r.emissive

\* C3 as claimed: the relative index handed to refract is eta when the ray
\* enters the surface and 1/eta when it exits.
C3_Claimed ==
    "trace" \in pc =>
        \A n \in Nodes(traced) :
            n.refracted # << >> =>
                n.refracted[1] = IF Entering(n) THEN n.r.eta ELSE FDiv(ONE, n.r.eta)

\* C3, amended: when eta > 0 and depth > 0 the relative index handed to
\* refract is 1/eta when the ray enters the surface (sign = +1) and eta when
\* it exits (sign = -1).
C3_RelativeIndex ==
    "trace" \in pc =>
        \A n \in Nodes(traced) :
            /\ (n.r # None /\ n.r.eta > 0 /\ n.depth > 0) <=> (n.refracted # << >>)
            /\ n.refracted # << >> =>
                  /\ n.sign = (IF Entering(n) THEN ONE ELSE -ONE)
                  /\ n.refracted[1] =
                        IF Entering(n) THEN FDiv(ONE, n.r.eta) ELSE n.r.eta

\* One run of trace that refracts on the way in and on the way out of a
\* dielectric whose eta is not 1.
C3_Witness ==
    /\ "trace" \in pc
    /\ \E n, m \in Nodes(traced) :
          /\ n.refracted # << >> /\ Entering(n)
          /\ m.refracted # << >> /\ ~Entering(m)
          /\ n.refracted[1] # n.r.eta
          /\ m.refracted[1] = m.r.eta

\* refract's k for invocation n: 1 - eta^2 (1 - (d.n)^2), with the normal
\* turned against the ray and eta the relative index handed to refract.
SnellK(n) ==
    LET s == IF Entering(n) THEN 1 ELSE -1
        dot == FMul(n.dir[1], s * n.r.normal[1]) + FMul(n.dir[2], s * n.r.normal[2])
        eta == n.refracted[1]
    IN  ONE - FMul(FMul(eta, eta), ONE - FMul(dot, dot))

\* C8: in trace with depth > 0 and eta > 0, when k < 0 there is no
\* transmitted call, and exactly one recursive call is made: the reflected
\* ray, at depth - 1, from the hit point, added with weight 1 whatever the
\* entity's reflectivity.
C8_TotalInternalReflection ==
    "trace" \in pc =>
        \A n \in Nodes(traced) :
            (n.r # None /\ n.depth > 0 /\ n.r.eta > 0 /\ SnellK(n) < 0) =>
                /\ Len(n.calls) = 1
                /\ n.calls[1].branch = "reflected"
                /\ n.calls[1].weight = ONE
                /\ n.calls[1].result.depth = n.depth - 1
                /\ n.calls[1].result.origin = n.r.point

\* Total internal reflection on an entity whose own reflectivity is not 1.
C8_Witness ==
    /\ "trace" \in pc
    /\ \E n \in Nodes(traced) :
          /\ n.r # None /\ n.depth > 0 /\ n.r.eta > 0 /\ SnellK(n) < 0
          /\ n.r.reflectivity # ONE
          /\ Len(n.calls) = 1
          /\ n.calls[1].result.color # Color_black

-----------------------------------------------------------------------------
(* SpecBuild: one Polygon is built, as config.rs does for a polygon of the *)
(* scene description.  ctor records the constructor call, shape what it    *)
(* returned: a Polygon, or Panic(message) when the call did not return.    *)

MaxPoints == 3
MaxSides == 6

Vertices == {<<0, 0>>, <<1000, 0>>, <<0, 1000>>}
Elevations == {0, -90, 450}
Radii == {1000, 2000}
HalfExtents == {0, 500, 1000}

\* The n of a scene description: the small ones, and those with bit 31 set.
Sides == {U32(0, k) : k \in 0..MaxSides}
WideSides == {U32(1, 0), U32(1, 1), U32(1, MaxSides)}

BuildInit ==
    /\ pc = {}
    /\ shape = None
    /\ ctor = None
    /\ ray_p = <<0, 0>> /\ ray_d = <<0, 0>> /\ hits = << >> /\ inside = FALSE
    /\ TraceIdle
    /\ RenderIdle

BuildIdle == UNCHANGED <<ray_p, ray_d, hits, inside, TraceVars, RenderVars>>

\* PolygonJson::Points(points) => Polygon::new(points)
BuildPoints ==
    /\ pc = {}
    /\ \E p \in Seqs(Vertices, MaxPoints) :
          /\ ctor' = [fn |-> "new", p |-> p]
          /\ shape' = Polygon_new(p)
    /\ pc' = {"built"}
    /\ BuildIdle

\* PolygonJson::Regular { cx, cy, r, n, e } => Polygon::regular(cx, cy, r, n, e)
BuildRegular ==
    /\ pc = {}
    /\ \E r \in Radii, n \in Sides, e \in Elevations :
          /\ ctor' = [fn |-> "regular", r |-> r, n |-> n, e |-> e]
          /\ shape' = Polygon_regular(0, 0, r, n, e)
    /\ pc' = {"built"}
    /\ BuildIdle

\* PolygonJson::Star { cx, cy, r, n, e } => Polygon::star(cx, cy, r, n, e)
BuildStar ==
    /\ pc = {}
    /\ \E r \in Radii, n \in Sides \cup WideSides, e \in Elevations,
          overflow_checks \in BOOLEAN :
          /\ ctor' = [fn |-> "star", r |-> r, n |-> n, e |-> e,
                      overflow_checks |-> overflow_checks]
          /\ shape' = Polygon_star(0, 0, r, n, e, overflow_checks)
    /\ pc' = {"built"}
    /\ BuildIdle

\* PolygonJson::Rectangle { cx, cy, e, sx, sy } => Polygon::rectangle(cx, cy, e, sx, sy)
BuildRectangle ==
    /\ pc = {}
    /\ \E e \in Elevations, sx \in HalfExtents, sy \in HalfExtents :
          /\ ctor' = [fn |-> "rectangle", e |-> e, sx |-> sx, sy |-> sy]
          /\ shape' = Polygon_rectangle(500, 500, e, sx, sy)
    /\ pc' = {"built"}
    /\ BuildIdle

BuildNext == BuildPoints \/ BuildRegular \/ BuildStar \/ BuildRectangle

SpecBuild == BuildInit /\ [][BuildNext]_vars

Panicked == shape.kind = "panic"

\* n >= 5 on the two halves of n.
AtLeastFive(n) == n.hi = 1 \/ n.lo >= 5

\* C10: Polygon::new panics exactly when given fewer than 2 points, star
\* panics when n < 5 and returns a Polygon when n >= 5, and every Polygon
\* that exists has at least 2 vertices, whichever helper built it.
C10_Claimed ==
    "built" \in pc =>
        /\ ctor.fn = "new" => (Panicked <=> Len(ctor.p) < 2)
        /\ ctor.fn = "star" => (Panicked <=> ~AtLeastFive(ctor.n))
        /\ ~Panicked => shape.kind = "Polygon" /\ Len(shape.points) >= 2

\* A star asked for with n >= 5 that panics instead of returning a Polygon.
C10_Witness ==
    /\ "built" \in pc
    /\ ctor.fn = "star"
    /\ AtLeastFive(ctor.n)
    /\ Panicked

-----------------------------------------------------------------------------
(* SpecRender: render.rs, render and render_point.  Two runs of render on  *)
(* the same scene, size, stratification and max_depth are carried side by  *)
(* side; each of size, cursor, jitter, pending, acc, img and pc is indexed *)
(* by the run.  The runs share nothing, so they are advanced pixel by      *)
(* pixel: run 2 renders a pixel once run 1 has put it.                     *)

Runs == {1, 2}

MaxStratification == 2

\* Values of rand::thread_rng().gen_range(0.0..1.0): 0.0 and 0.5.
Jitters == {0, ONE \div 2}

ImageSizes == {<<1, 1>>, <<2, 1>>}

RenderScenes == {<<Lamp>>, <<Twin, Lamp>>, <<Mirror, Lamp>>}

Min(a, b) == IF a < b THEN a ELSE b

\* (xx, yy) of the pixel the cursor is at: x is the outer loop, y the inner.
PixelPoint(width, height, c) ==
    << FDiv((c \div height) * ONE, Min(width, height) * ONE),
       FDiv((c % height) * ONE, Min(width, height) * ONE) >>

\* SampleAngle without the bin: every sample falls in the first bin.
SampleAngleFirstBin(i, u, n) == Quot(WHOLE_ANGLE * u, n * ONE)

\* 2.0 * PI * (i + u) / stratification, in whole degrees.
SampleAngle(i, u, n) == Quot(WHOLE_ANGLE * (i * ONE + u), n * ONE)

\* trace(scene, point.0, point.1, a.cos(), a.sin(), max_depth)
SampleColor(entities, point, a, depth) ==
    trace(entities, point[1], point[2], FCos(a), FSin(a), depth).color

\* .sum() with the samples in the order the workers hand them over: the
\* last sample handed over replaces the sum.
RenderSumLast(sum, sample) == sample

\* .sum(): one more sample added to the sum.
RenderSum(sum, sample) == Color_add(sum, sample)

\* min((c * 255.0) as u32, 255) as u8; the cast saturates below at 0.
Channel(c) == Min(IF Quot(c * 255, ONE) < 0 THEN 0 ELSE Quot(c * 255, ONE), 255)

\* sum * (1.0 / stratification), then Rgb([r, g, b])
Rgb(sum, n) ==
    LET color == Color_scale(sum, FDiv(ONE, n * ONE))
    IN  <<Channel(color.r), Channel(color.g), Channel(color.b)>>

RenderInit ==
    /\ pc = [r \in Runs |-> "sample"]
    /\ scene \in RenderScenes
    /\ max_depth \in {0, MaxDepth}
    /\ nearest = None /\ traced = None
    /\ size \in ImageSizes
    /\ stratification \in 1..MaxStratification
    /\ cursor = [r \in Runs |-> 0]
    /\ jitter = [r \in Runs |-> << >>]
    /\ pending = [r \in Runs |-> {}]
    /\ acc = [r \in Runs |-> Color_black]
    /\ img = [r \in Runs |-> << >>]
    /\ ray_p = <<0, 0>> /\ ray_d = <<0, 0>>
    /\ ShapesIdle

RenderFixed ==
    UNCHANGED <<ShapeVars, ctor, TraceVars, size, stratification>>

\* render_point, lines 153-157: the angles of the pixel's samples are drawn
\* and collected before any of them is traced.
Sample(r) ==
    /\ pc[r] = "sample"
    /\ IF r = 1 THEN cursor[1] = cursor[2] ELSE cursor[2] < cursor[1]
    /\ \E u \in [1..stratification -> Jitters] :
          jitter' = [jitter EXCEPT ![r] = u]
    /\ pending' = [pending EXCEPT ![r] = 1..stratification]
    /\ acc' = [acc EXCEPT ![r] = Color_black]
    /\ pc' = [pc EXCEPT ![r] = "trace"]
    /\ UNCHANGED <<cursor, img>>
    /\ RenderFixed

\* render_point, lines 158-160: a worker of the pool traces one of the
\* samples still to be done, whichever, and its color joins the sum.
Worker(r) ==
    /\ pc[r] = "trace"
    /\ \E k \in pending[r] :
          /\ acc' = [acc EXCEPT ![r] =
                RenderSum(acc[r],
                    SampleColor(scene,
                        PixelPoint(size[1], size[2], cursor[r]),
                        SampleAngle(k - 1, jitter[r][k], stratification),
                        max_depth))]
          /\ pending' = [pending EXCEPT ![r] = pending[r] \ {k}]
    /\ UNCHANGED <<pc, cursor, jitter, img>>
    /\ RenderFixed

\* render, lines 179-183: the averaged color is quantised and put, and the
\* loops move to the next pixel or end.
PutPixel(r) ==
    /\ pc[r] = "trace"
    /\ pending[r] = {}
    /\ img' = [img EXCEPT ![r] = Append(img[r], Rgb(acc[r], stratification))]
    /\ cursor' = [cursor EXCEPT ![r] = cursor[r] + 1]
    /\ pc' = [pc EXCEPT ![r] =
            IF cursor[r] + 1 = size[1] * size[2] THEN "done" ELSE "sample"]
    /\ UNCHANGED <<jitter, pending, acc>>
    /\ RenderFixed

RenderNext == \E r \in Runs : Sample(r) \/ Worker(r) \/ PutPixel(r)

SpecRender == RenderInit /\ [][RenderNext]_vars

\* Every entity of the scene has reflectivity = 0 and eta = 0.
Deterministic(entities) ==
    \A i \in 1..Len(entities) :
        entities[i].reflectivity = 0 /\ entities[i].eta = 0

\* Both runs have put the same number of pixels, at least one, and neither
\* has begun the next.
BothPut ==
    /\ cursor[1] = cursor[2]
    /\ cursor[1] > 0
    /\ \A r \in Runs : pc[r] \in {"sample", "done"}

\* C9 as claimed: two runs of render on the same scene whose entities all
\* have reflectivity = 0 and eta = 0, with the same size, max_depth and
\* stratification, put the same pixels whatever jitter each run draws.
C9_Claimed ==
    (BothPut /\ Deterministic(scene)) => img[1] = img[2]

\* C9: two runs of render on the same scene, size, max_depth and
\* stratification put the same pixel whenever they drew the same jitter for
\* its samples, in whatever order the workers traced them.
C9_SameJitterSamePixel ==
    (BothPut /\ jitter[1] = jitter[2]) =>
        img[1][cursor[1]] = img[2][cursor[2]]

\* Two runs that drew the same jitter for the two samples of a pixel of a
\* scene without reflection or refraction, and put the same lit pixel.
C9_Witness ==
    /\ BothPut
    /\ Deterministic(scene)
    /\ stratification >= 2
    /\ jitter[1] = jitter[2]
    /\ img[1][cursor[1]] = img[2][cursor[2]]
    /\ img[1][cursor[1]] # <<0, 0, 0>>

-----------------------------------------------------------------------------
(* Claims on the distance of the hits, checked in SpecShapes.              *)

RECURSIVE LightsOf(_)
\* The DirectionalLight leaves of a shape tree.
LightsOf(s) ==
    IF s.kind = "DirectionalLight" THEN {s}
    ELSE IF s.kind \in {"UnionShape", "IntersectShape"}
    THEN UNION { LightsOf(s.c[i]) : i \in 1..Len(s.c) }
    ELSE IF s.kind = "ComplementShape" THEN LightsOf(s.a)
    ELSE {}

\* The distance of hit k from the ray's origin.
HitRange(k) == distance(ray_p, hits[k].point)

\* C11 as claimed: every Intersection returned by intersect, of any shape
\* variant, lies further than EPSILON from the ray's origin.
C11_Claimed ==
    "intersect" \in pc => \A k \in 1..Len(hits) : HitRange(k) > EPSILON

\* C11: every Intersection returned by intersect lies further than EPSILON
\* from the ray's origin, unless it is the hit of a DirectionalLight of the
\* tree, which lies at the light's configured distance d whatever d is.
C11_BeyondEpsilon ==
    "intersect" \in pc =>
        \A k \in 1..Len(hits) :
            \/ HitRange(k) > EPSILON
            \/ \E l \in LightsOf(shape) :
                  /\ Abs(l.d) <= EPSILON
                  /\ HitRange(k) = Abs(l.d)
                  /\ hits[k].normal \in {<<l.nx, l.ny>>, <<-l.nx, -l.ny>>}

\* A ray that starts on the circle and leaves through its inside: the root
\* at the origin is dropped and the far crossing is the only hit.
C11_Witness ==
    /\ "intersect" \in pc
    /\ shape = CircleA
    /\ distance(ray_p, <<shape.cx, shape.cy>>) = shape.r
    /\ Len(hits) = 1
    /\ HitRange(1) = 2 * shape.r

-----------------------------------------------------------------------------
(* Claims on Polygon::is_inside, checked in SpecShapes.  The crossing      *)
(* number is computed on the integers, without slope or rounding.          *)

\* Edge i of the polygon, as <<x0, y0, x1, y1>>.
EdgeOf(points, i) ==
    << points[i][1], points[i][2],
       points[NextIndex(points, i)][1], points[NextIndex(points, i)][2] >>

\* The vertical ray from p towards greater y crosses the edge: p's x lies in
\* the half-open interval of the edge's x and the edge passes above p.
Crosses(e, p) ==
    /\ (e[1] <= p[1] /\ p[1] < e[3]) \/ (e[3] <= p[1] /\ p[1] < e[1])
    /\ LET side == (e[2] - p[2]) * (e[3] - e[1]) + (e[4] - e[2]) * (p[1] - e[1])
       IN  IF e[3] > e[1] THEN side > 0 ELSE side < 0

CrossingNumber(points, p) ==
    Cardinality({ i \in 1..Len(points) : Crosses(EdgeOf(points, i), p) })

\* p lies on the edge, its end points included.
OnEdge(e, p) ==
    /\ (e[3] - e[1]) * (p[2] - e[2]) = (e[4] - e[2]) * (p[1] - e[1])
    /\ (p[1] - e[1]) * (p[1] - e[3]) <= 0
    /\ (p[2] - e[2]) * (p[2] - e[4]) <= 0

OnBoundary(points, p) ==
    \E i \in 1..Len(points) : OnEdge(EdgeOf(points, i), p)

\* p shares its x with a vertical edge of the polygon.
UnderVerticalEdge(points, p) ==
    \E i \in 1..Len(points) :
        EdgeOf(points, i)[1] = EdgeOf(points, i)[3] /\ p[1] = EdgeOf(points, i)[1]

\* C12 as claimed: for every polygon and every point not on its boundary,
\* Polygon::is_inside is true exactly when the vertical ray from the point
\* crosses the polygon's edges an odd number of times.
C12_Claimed ==
    ("is_inside" \in pc /\ shape.kind = "Polygon"
        /\ ~OnBoundary(shape.points, ray_p)) =>
        (inside <=> CrossingNumber(shape.points, ray_p) % 2 = 1)

\* A point off the boundary that shares its x with a vertical edge, that no
\* odd number of crossings puts inside, and that is_inside reports inside.
C12_Witness ==
    /\ "is_inside" \in pc
    /\ shape.kind = "Polygon"
    /\ ~OnBoundary(shape.points, ray_p)
    /\ UnderVerticalEdge(shape.points, ray_p)
    /\ CrossingNumber(shape.points, ray_p) % 2 = 0
    /\ inside

-----------------------------------------------------------------------------
(* Claims on the recursion of trace, checked in SpecTrace.                 *)

RECURSIVE Height(_)
\* The number of nested invocations of trace below and including t.
Height(t) ==
    LET below == { Height(t.calls[k].result) : k \in 1..Len(t.calls) }
    IN  1 + (IF below = {} THEN 0 ELSE CHOOSE h \in below : \A g \in below : g <= h)

\* The branches of the recursive calls an invocation made, in call order.
Branches(n) == [k \in 1..Len(n.calls) |-> n.calls[k].branch]

\* C13: every invocation of trace makes at most two recursive calls, at most
\* one transmitted and then at most one reflected, each with depth exactly
\* one less than its own; an invocation with depth 0 or without a hit makes
\* none (and without a hit returns black); so the nesting never exceeds
\* depth + 1 levels and no invocation has a depth below 0.
C13_TraceTerminates ==
    "trace" \in pc =>
        /\ \A n \in Nodes(traced) :
              /\ n.depth >= 0
              /\ Branches(n) \in { << >>, <<"transmitted">>, <<"reflected">>,
                                   <<"transmitted", "reflected">> }
              /\ \A k \in 1..Len(n.calls) : n.calls[k].result.depth = n.depth - 1
              /\ (n.depth = 0 \/ n.r = None) => n.calls = << >>
              /\ n.r = None => n.color = Color_black
        /\ traced.depth = max_depth
        /\ Height(traced) <= max_depth + 1

\* A trace that makes both calls at its top, and whose recursion goes down
\* to depth 0 through a transmitted and a reflected call.
C13_Witness ==
    /\ "trace" \in pc
    /\ max_depth = MaxDepth
    /\ Branches(traced) = <<"transmitted", "reflected">>
    /\ Height(traced) = max_depth + 1
    /\ \E n \in Nodes(traced) : n.depth = 0 /\ n.r # None /\ n.r.eta > 0

-----------------------------------------------------------------------------
(* Claims on the worker pool of render_point, checked in SpecRender.       *)

\* What trace returns for bin k (1-based) of pixel c in run r: the ray from
\* the pixel's point at the angle 360 * ((k - 1) + jitter) / N degrees.
BinColor(r, c, k) ==
    LET a == Quot(WHOLE_ANGLE * ((k - 1) * ONE + jitter[r][k]), stratification * ONE)
        point == PixelPoint(size[1], size[2], c)
    IN  trace(scene, point[1], point[2], FCos(a), FSin(a), max_depth).color

RECURSIVE BinSum(_, _, _)
\* The trace results of the bins in the set S, added up.
BinSum(r, c, S) ==
    IF S = {} THEN Color_black
    ELSE LET k == CHOOSE k \in S : TRUE
         IN  Color_add(BinColor(r, c, k), BinSum(r, c, S \ {k}))

\* While the workers run, the sum holds the results of the bins done; once
\* the pixel is put, it is the sum over the N bins, one result each, scaled
\* by 1/N.
SumOfBins(r) ==
    /\ pc[r] = "trace" =>
          /\ pending[r] \subseteq 1..stratification
          /\ acc[r] = BinSum(r, cursor[r], (1..stratification) \ pending[r])
    /\ (pc[r] # "trace" /\ cursor[r] > 0) =>
          img[r][cursor[r]] =
              Rgb(BinSum(r, cursor[r] - 1, 1..stratification), stratification)

\* C14: no step of render_point or render writes to the Scene (or to the
\* size, stratification and max_depth the samples share), and for the angles
\* drawn the pixel is the sum of exactly `stratification` trace results, one
\* per angular bin, scaled by 1/N, in whatever order the workers finish.
C14_ReadOnlySceneSumOfBins ==
    /\ [](\A r \in Runs : SumOfBins(r))
    /\ [][<<scene, max_depth, size, stratification>>'
            = <<scene, max_depth, size, stratification>>]_vars

\* A pixel put from two bins whose rays returned different colors.
C14_Witness ==
    /\ pc[1] # "trace"
    /\ cursor[1] > 0
    /\ stratification = 2
    /\ BinColor(1, cursor[1] - 1, 1) # BinColor(1, cursor[1] - 1, 2)
    /\ img[1][cursor[1]] # <<0, 0, 0>>
    /\ img[1][cursor[1]]
         = Rgb(Color_add(BinColor(1, cursor[1] - 1, 1),
                         BinColor(1, cursor[1] - 1, 2)), 2)

====
